---- MODULE Spec2Model ----
(***************************************************************************)
(* Text alignment and timing reconstruction of bin/text_based_alignment.py *)
(* (class TextAligner).  One call of align_segment is modelled as a state  *)
(* machine: the edit-distance alignment, then one step per iteration of    *)
(* the scan of adjust_timing_for_insertions, then the statistics update.   *)
(* The run of main is a second state machine around it: the pairing of the *)
(* segments, one align_segment call per pair, and the two output files.    *)
(*                                                                         *)
(* Python indices are kept 0-based inside path entries and backtrack cells *)
(* (-1 = no index); TLA+ sequences are 1-based, so element k of a Python   *)
(* list is element k+1 of its sequence.  Times are Python floats in the    *)
(* source; they are modelled as exact rationals <<num, den>> (den > 0,     *)
(* lowest terms), so float rounding is not modelled.                       *)
(***************************************************************************)
EXTENDS Integers, Sequences, FiniteSets, TLC

VARIABLES
    asr_words,       \* align_segment argument: sequence of WordTiming
    ref_words,       \* align_segment argument: sequence of words
    pc,              \* position inside align_segment
    dp,              \* compute_edit_distance: cost table
    backtrack,       \* compute_edit_distance: decision table
    edit_distance,   \* align_segment local
    alignment_path,  \* align_segment local
    operations,      \* align_segment local: sequence of AlignmentOperation
    stats,           \* align_segment local: per-segment counters
    scan_i,          \* loop index i of adjust_timing_for_insertions (0-based)
    total_stats,     \* TextAligner.total_stats
    asr_data,        \* main: the turns of the sections of the ASR JSON
    ref_data,        \* main: the "segments" list of the reference JSON
    debug_file,      \* TextAligner.debug_file: TRUE when --debug is given
    debug_log,       \* the lines written to the debug file so far
    asr_segments,    \* main local
    segment_pairs,   \* main local: sequence of <<asr_seg, ref_seg>>
    pair_i,          \* main: loop index i over segment_pairs (0-based)
    alignments,      \* main local: the SegmentAlignment of each call
    output_data,     \* the JSON written to --output (None until written)
    stats_data,      \* the JSON written to --stats (None until written)
    report_content   \* alignment_stats.py: the report made from the stats JSON

mainvars == <<asr_data, ref_data, debug_file, asr_segments, segment_pairs,
              pair_i, alignments, output_data, stats_data, report_content>>

vars == <<asr_words, ref_words, pc, dp, backtrack, edit_distance,
          alignment_path, operations, stats, scan_i, total_stats,
          mainvars, debug_log>>

----------------------------------------------------------------------------
\* Bounds of the model.

MaxHyp == 2

MaxRef == 4

----------------------------------------------------------------------------
\* Exact rational arithmetic standing for the float arithmetic of the source.

Abs(x) == IF x < 0 THEN -x ELSE x

RECURSIVE GCD(_, _)
GCD(a, b) == IF b = 0 THEN a ELSE GCD(b, a % b)

LCM(a, b) == (a \div GCD(a, b)) * b

RNorm(n, d) ==
    LET g == GCD(Abs(n), d) IN <<n \div g, d \div g>>

R(n) == <<n, 1>>

RAdd(x, y) ==
    LET l == LCM(x[2], y[2])
    IN  RNorm(x[1] * (l \div x[2]) + y[1] * (l \div y[2]), l)

RSub(x, y) ==
    LET l == LCM(x[2], y[2])
    IN  RNorm(x[1] * (l \div x[2]) - y[1] * (l \div y[2]), l)

RMul(x, y) == RNorm(x[1] * y[1], x[2] * y[2])

\* x * k and x / k for an integer k (k > 0 for the division)
RTimes(x, k) == RNorm(x[1] * k, x[2])

RDiv(x, k) == RNorm(x[1], x[2] * k)

RLess(x, y) == x[1] * y[2] < y[1] * x[2]

RPos(x) == x[1] > 0

\* mutant: a third instead of 33%
reduction_factor_Third == <<1, 3>>

\* reduction_factor = 0.33 (reduce_adjacent_words_timing)
reduction_factor == <<33, 100>>

\* base_duration = 0.1 (handle_edge_insertions)
base_duration == <<1, 10>>

\* Python's None
None == <<>>

----------------------------------------------------------------------------
\* Words are sequences of characters; normalize_word lowercases and drops
\* every character that is not a word character.

Lower(c) == IF c = "A" THEN "a" ELSE IF c = "B" THEN "b" ELSE c

LowerCase ==
    {"a", "b", "c", "d", "e", "f", "g", "h", "i", "j", "k", "l", "m",
     "n", "o", "p", "q", "r", "s", "t", "u", "v", "w", "x", "y", "z"}

IsWordChar(c) == c \in LowerCase \cup {"A", "B"}

\* mutant: the word is not lowercased
normalize_word_KeepCase(word) ==
    SelectSeq(word, LAMBDA c : c \in LowerCase)

\* "re.sub(r'[^\w]', '', word.lower())"
normalize_word(word) ==
    SelectSeq([k \in 1..Len(word) |-> Lower(word[k])], IsWordChar)

----------------------------------------------------------------------------
\* compute_edit_distance

\* float('inf'): larger than any cost the table can hold
Inf == 1000000

\* mutant: the row of the empty hypothesis is never initialised
InitTables_NoRowInit(m, n) ==
    [dp |-> [i \in 0..m |-> [j \in 0..n |-> IF j = 0 THEN i ELSE Inf]],
     backtrack |-> [i \in 0..m |-> [j \in 0..n |->
                IF j = 0 /\ i > 0 THEN <<"D", i - 1, -1>> ELSE None]]]

\* mutant: the column of the empty reference is never initialised
InitTables_NoColumnInit(m, n) ==
    [dp |-> [i \in 0..m |-> [j \in 0..n |-> IF i = 0 THEN j ELSE Inf]],
     backtrack |-> [i \in 0..m |-> [j \in 0..n |->
                IF i = 0 /\ j > 0 THEN <<"I", -1, j - 1>> ELSE None]]]

\* tables after the base-case loops (lines 69-85)
InitTables(m, n) ==
    [dp |-> [i \in 0..m |-> [j \in 0..n |->
                IF j = 0 THEN i ELSE IF i = 0 THEN j ELSE Inf]],
     backtrack |-> [i \in 0..m |-> [j \in 0..n |->
                IF i = 0 /\ j = 0 THEN None
                ELSE IF j = 0 THEN <<"D", i - 1, -1>>
                ELSE IF i = 0 THEN <<"I", -1, j - 1>>
                ELSE None]]]

\* mutant: a candidate replaces the recorded one on a tie
Relax_OnTie(tab, i, j, cost, decision) ==
    IF cost <= tab.dp[i][j]
    THEN [dp |-> [tab.dp EXCEPT ![i][j] = cost],
          backtrack |-> [tab.backtrack EXCEPT ![i][j] = decision]]
    ELSE tab

\* one candidate of the cell: taken only when strictly cheaper
Relax(tab, i, j, cost, decision) ==
    IF cost < tab.dp[i][j]
    THEN [dp |-> [tab.dp EXCEPT ![i][j] = cost],
          backtrack |-> [tab.backtrack EXCEPT ![i][j] = decision]]
    ELSE tab

\* mutant: the words are compared as written, not normalized
RelaxDiagonal_RawCompare(tab, i, j, asr, ref) ==
    IF asr[i] = ref[j]
    THEN Relax(tab, i, j, tab.dp[i-1][j-1], <<"M", i - 1, j - 1>>)
    ELSE Relax(tab, i, j, tab.dp[i-1][j-1] + 1, <<"S", i - 1, j - 1>>)

\* mutant: a diagonal step is taken for equal words only
RelaxDiagonal_MatchOnly(tab, i, j, asr, ref) ==
    IF normalize_word(asr[i]) = normalize_word(ref[j])
    THEN Relax(tab, i, j, tab.dp[i-1][j-1], <<"M", i - 1, j - 1>>)
    ELSE tab

\* lines 94-103: the diagonal candidate, Match or Substitute
RelaxDiagonal(tab, i, j, asr, ref) ==
    IF normalize_word(asr[i]) = normalize_word(ref[j])
    THEN Relax(tab, i, j, tab.dp[i-1][j-1], <<"M", i - 1, j - 1>>)
    ELSE Relax(tab, i, j, tab.dp[i-1][j-1] + 1, <<"S", i - 1, j - 1>>)

\* lines 106-109: delete from ASR
RelaxDelete(tab, i, j) ==
    Relax(tab, i, j, tab.dp[i-1][j] + 1, <<"D", i - 1, j>>)

\* lines 112-115: insert into ASR
RelaxInsert(tab, i, j) ==
    Relax(tab, i, j, tab.dp[i][j-1] + 1, <<"I", i, j - 1>>)

\* body of the inner loop for cell (i, j), i >= 1, j >= 1 (lines 90-115)
FillCell(tab, i, j, asr, ref) ==
    RelaxInsert(RelaxDelete(RelaxDiagonal(tab, i, j, asr, ref), i, j), i, j)

\* the nested loops "for i in range(1, m+1): for j in range(1, n+1)".  The
\* cost of a cell never exceeds float('inf'); reading it here makes the cell
\* be computed before the next iteration starts, as in the loop.
RECURSIVE FillTables(_, _, _, _, _)
FillTables(tab, i, j, asr, ref) ==
    IF i > Len(asr) THEN tab
    ELSE IF j > Len(ref) THEN FillTables(tab, i + 1, 1, asr, ref)
    ELSE LET cell == FillCell(tab, i, j, asr, ref)
         IN  IF cell.dp[i][j] <= Inf
             THEN FillTables(cell, i, j + 1, asr, ref)
             ELSE cell

\* one iteration of the backtracking loop: the path entry appended at (i, j)
PathEntry(bt, i, j) ==
    LET d == bt[i][j]
    IN  IF d[1] = "D" THEN <<"D", d[2], -1>>
        ELSE IF d[1] = "I" THEN <<"I", -1, d[3]>>
        ELSE <<d[1], d[2], d[3]>>

\* the cell the backtracking loop moves to from (i, j)
PrevCell(bt, i, j) ==
    LET d == bt[i][j]
    IN  IF d[1] = "D" THEN <<d[2], j>>
        ELSE IF d[1] = "I" THEN <<i, d[3]>>
        ELSE <<d[2], d[3]>>

\* mutant: the loop stops at the first row or column of the table
RECURSIVE ReconstructPath_StopAtEdge(_, _, _)
ReconstructPath_StopAtEdge(bt, i, j) ==
    IF i = 0 \/ j = 0 \/ bt[i][j] = None THEN <<>>
    ELSE LET c == PrevCell(bt, i, j)
         IN  Append(ReconstructPath_StopAtEdge(bt, c[1], c[2]), PathEntry(bt, i, j))

\* the while loop of lines 118-130 followed by path.reverse()
RECURSIVE ReconstructPath(_, _, _)
ReconstructPath(bt, i, j) ==
    IF bt[i][j] = None THEN <<>>
    ELSE LET c == PrevCell(bt, i, j)
         IN  Append(ReconstructPath(bt, c[1], c[2]), PathEntry(bt, i, j))

\* "return dp[m][n], path", with the two tables kept for inspection
Returned(tab, asr, ref) ==
    [dp |-> tab.dp,
     backtrack |-> tab.backtrack,
     distance |-> tab.dp[Len(asr)][Len(ref)],
     path |-> ReconstructPath(tab.backtrack, Len(asr), Len(ref))]

compute_edit_distance(asr, ref) ==
    Returned(FillTables(InitTables(Len(asr), Len(ref)), 1, 1, asr, ref), asr, ref)

----------------------------------------------------------------------------
\* Timing reconstruction.  An AlignmentOperation is a record
\*   [op, asr_word, ref_word, adjusted_timing]
\* where asr_word is the reference to the hypothesis WordTiming, held as its
\* 0-based index in asr_words (-1 for None), ref_word is the word or None and
\* adjusted_timing is None or <<start, end>>.

Timed(o) == o.adjusted_timing # None

\* "for j in range(i-1, -1, -1): if operations[j].adjusted_timing: ... break"
\* position of the nearest timed operation before position p, 0 when none
PrevTimed(ops, p) ==
    LET S == {j \in 1..(p - 1) : Timed(ops[j])}
    IN  IF S = {} THEN 0 ELSE CHOOSE j \in S : \A k \in S : k <= j

\* "for j in range(i+1, len(operations)): if operations[j].adjusted_timing"
\* position of the nearest timed operation after position p, 0 when none
NextTimed(ops, p) ==
    LET S == {j \in (p + 1)..Len(ops) : Timed(ops[j])}
    IN  IF S = {} THEN 0 ELSE CHOOSE j \in S : \A k \in S : j <= k

UntimedInsert(o) == o.op = "I" /\ ~Timed(o)

\* insertion_group (lines 160-172): positions <<lo, hi>> of the operation at
\* p extended over the untimed INSERT operations that touch it on each side
InsertionGroup(ops, p) ==
    LET lo == CHOOSE a \in 1..p :
                /\ \A k \in a..(p - 1) : UntimedInsert(ops[k])
                /\ (a = 1 \/ ~UntimedInsert(ops[a - 1]))
        hi == CHOOSE b \in p..Len(ops) :
                /\ \A k \in (p + 1)..b : UntimedInsert(ops[k])
                /\ (b = Len(ops) \/ ~UntimedInsert(ops[b + 1]))
    IN  <<lo, hi>>

\* mutant: the slots are counted from 1
AssignGroup_FromOne(ops, grp, start, per) ==
    [q \in 1..Len(ops) |->
        IF grp[1] <= q /\ q <= grp[2]
        THEN [ops[q] EXCEPT !.adjusted_timing =
                <<RAdd(start, RTimes(per, q - grp[1] + 1)),
                  RAdd(start, RTimes(per, q - grp[1] + 2))>>]
        ELSE ops[q]]

\* "for k, ins_op in enumerate(insertion_group):
\*      ins_op.adjusted_timing = (start + k*per, start + (k+1)*per)"
AssignGroup(ops, grp, start, per) ==
    [q \in 1..Len(ops) |->
        IF grp[1] <= q /\ q <= grp[2]
        THEN [ops[q] EXCEPT !.adjusted_timing =
                <<RAdd(start, RTimes(per, q - grp[1])),
                  RAdd(start, RTimes(per, q - grp[1] + 1))>>]
        ELSE ops[q]]

GroupLen(grp) == grp[2] - grp[1] + 1

\* mutant: every inserted word is given the whole gap
GapFill_Undivided(ops, p) ==
    LET prev_end == ops[PrevTimed(ops, p)].adjusted_timing[2]
        next_start == ops[NextTimed(ops, p)].adjusted_timing[1]
        grp == InsertionGroup(ops, p)
        available_time == RSub(next_start, prev_end)
    IN  AssignGroup(ops, grp, prev_end, available_time)

\* lines 175-183: both neighbours exist and the gap between them is positive
GapFill(ops, p) ==
    LET prev_end == ops[PrevTimed(ops, p)].adjusted_timing[2]
        next_start == ops[NextTimed(ops, p)].adjusted_timing[1]
        grp == InsertionGroup(ops, p)
        available_time == RSub(next_start, prev_end)
        time_per_insertion == RDiv(available_time, GroupLen(grp))
    IN  AssignGroup(ops, grp, prev_end, time_per_insertion)

\* mutant: the previous word is shortened at its start
ReducePrev_AtStart(ops, pj) ==
    LET t == ops[pj].adjusted_timing
        reduction == RMul(RSub(t[2], t[1]), reduction_factor)
    IN  [ops EXCEPT ![pj].adjusted_timing = <<RAdd(t[1], reduction), t[2]>>]

\* lines 212-217: the previous word gives up reduction_factor of its duration
ReducePrev(ops, pj) ==
    LET t == ops[pj].adjusted_timing
        reduction == RMul(RSub(t[2], t[1]), reduction_factor)
    IN  [ops EXCEPT ![pj].adjusted_timing = <<t[1], RSub(t[2], reduction)>>]

\* mutant: the reduction is taken from the end time, not from the duration
ReduceNext_FromEnd(ops, nj) ==
    LET t == ops[nj].adjusted_timing
        reduction == RMul(t[2], reduction_factor)
    IN  [ops EXCEPT ![nj].adjusted_timing = <<RAdd(t[1], reduction), t[2]>>]

\* lines 220-225: the next word gives up reduction_factor of its duration
ReduceNext(ops, nj) ==
    LET t == ops[nj].adjusted_timing
        reduction == RMul(RSub(t[2], t[1]), reduction_factor)
    IN  [ops EXCEPT ![nj].adjusted_timing = <<RAdd(t[1], reduction), t[2]>>]

\* mutant: the reduction is computed from the interval the hypothesis gave the
\* word, not from the operation's current timing
Reduction_Original(ops, j) ==
    LET t == IF ops[j].asr_word >= 0
             THEN <<asr_words[ops[j].asr_word + 1].start,
                    asr_words[ops[j].asr_word + 1].end>>
             ELSE ops[j].adjusted_timing
    IN  RMul(RSub(t[2], t[1]), reduction_factor)

\* "reduction = duration * reduction_factor" of the operation's current timing
Reduction(ops, j) ==
    RMul(RSub(ops[j].adjusted_timing[2], ops[j].adjusted_timing[1]),
         reduction_factor)

reduce_adjacent_words_timing(ops, grp, center) ==
    LET pj == PrevTimed(ops, center)
        nj == NextTimed(ops, center)
        ops1 == IF pj # 0 THEN ReducePrev(ops, pj) ELSE ops
        avail1 == IF pj # 0 THEN Reduction(ops, pj) ELSE R(0)
        ops2 == IF nj # 0 THEN ReduceNext(ops1, nj) ELSE ops1
        available_time == IF nj # 0 THEN RAdd(avail1, Reduction(ops1, nj))
                          ELSE avail1
        time_per_insertion == RDiv(available_time, GroupLen(grp))
        start_time == IF pj # 0 THEN ops2[pj].adjusted_timing[2] ELSE R(0)
    IN  IF RPos(available_time)
        THEN AssignGroup(ops2, grp, start_time, time_per_insertion)
        ELSE ops2

\* mutant: a leading run is laid out from the first timed start, not before it
handle_edge_insertions_Forward(ops, grp, center) ==
    IF center = 1
    THEN LET S == {j \in 1..Len(ops) : Timed(ops[j])}
             first == IF S = {} THEN 0 ELSE CHOOSE j \in S : \A k \in S : j <= k
             start_time == IF first # 0 THEN ops[first].adjusted_timing[1] ELSE R(0)
         IN  AssignGroup(ops, grp, start_time, base_duration)
    ELSE LET pj == PrevTimed(ops, center)
             prev_end == IF pj # 0 THEN ops[pj].adjusted_timing[2] ELSE R(0)
         IN  AssignGroup(ops, grp, prev_end, base_duration)

\* mutant: a leading run does not start before time zero
handle_edge_insertions_Clamped(ops, grp, center) ==
    IF center = 1
    THEN LET S == {j \in 1..Len(ops) : Timed(ops[j])}
             first == IF S = {} THEN 0 ELSE CHOOSE j \in S : \A k \in S : j <= k
             before ==
                IF first # 0
                THEN RSub(ops[first].adjusted_timing[1],
                          RTimes(base_duration, GroupLen(grp)))
                ELSE R(0)
             start_time == IF RLess(before, R(0)) THEN R(0) ELSE before
         IN  AssignGroup(ops, grp, start_time, base_duration)
    ELSE LET pj == PrevTimed(ops, center)
             prev_end == IF pj # 0 THEN ops[pj].adjusted_timing[2] ELSE R(0)
         IN  AssignGroup(ops, grp, prev_end, base_duration)

\* handle_edge_insertions (lines 237-273)
handle_edge_insertions(ops, grp, center) ==
    IF center = 1
    THEN \* beginning of segment: place before the first timed operation
         LET S == {j \in 1..Len(ops) : Timed(ops[j])}
             first == IF S = {} THEN 0 ELSE CHOOSE j \in S : \A k \in S : j <= k
             start_time ==
                IF first # 0
                THEN RSub(ops[first].adjusted_timing[1],
                          RTimes(base_duration, GroupLen(grp)))
                ELSE R(0)
         IN  AssignGroup(ops, grp, start_time, base_duration)
    ELSE \* end of segment: place after the last timed operation
         LET pj == PrevTimed(ops, center)
             prev_end == IF pj # 0 THEN ops[pj].adjusted_timing[2] ELSE R(0)
         IN  AssignGroup(ops, grp, prev_end, base_duration)

\* the branch conditions of the loop body (lines 175-189)
BothNeighbours(ops, p) == PrevTimed(ops, p) # 0 /\ NextTimed(ops, p) # 0

\* mutant: the gap is measured from the start of the previous word
AvailableTime_FromPrevStart(ops, p) ==
    RSub(ops[NextTimed(ops, p)].adjusted_timing[1],
         ops[PrevTimed(ops, p)].adjusted_timing[1])

\* "available_time = next_start - prev_end" (line 177)
AvailableTime(ops, p) ==
    RSub(ops[NextTimed(ops, p)].adjusted_timing[1],
         ops[PrevTimed(ops, p)].adjusted_timing[2])

\* adjust_substitution_timings only collects runs of SUBSTITUTE operations
\* in a local list and changes no operation
adjust_substitution_timings(ops) == ops

----------------------------------------------------------------------------
\* align_segment, lines 283-317: the operations built from the path

MakeOperation(e, asr, ref) ==
    [op |-> e[1],
     asr_word |-> e[2],
     ref_word |-> IF e[3] >= 0 THEN ref[e[3] + 1] ELSE None,
     adjusted_timing |-> IF e[2] >= 0
                         THEN <<asr[e[2] + 1].start, asr[e[2] + 1].end>>
                         ELSE None]

Count(path, kind) == Cardinality({k \in 1..Len(path) : path[k][1] = kind})

\* mutant: the per-segment counters start from the running totals ("stats"
\* bound to self.total_stats instead of a fresh dict)
MakeStats_FromTotals(path) ==
    [deletions |-> total_stats.deletions + Count(path, "D"),
     insertions |-> total_stats.insertions + Count(path, "I"),
     substitutions |-> total_stats.substitutions + Count(path, "S"),
     matches |-> total_stats.matches + Count(path, "M")]

\* lines 290 and 309-317: the per-segment counters
MakeStats(path) ==
    [deletions |-> Count(path, "D"), insertions |-> Count(path, "I"),
     substitutions |-> Count(path, "S"), matches |-> Count(path, "M")]

NoStats == [deletions |-> 0, insertions |-> 0, substitutions |-> 0, matches |-> 0]

\* mutant: "=" in place of "+=": the totals are overwritten by the last call
AddStats_Overwrite(t, s) == s

\* lines 326-327: "self.total_stats[key] += stats[key]"
AddStats(t, s) ==
    [deletions |-> t.deletions + s.deletions,
     insertions |-> t.insertions + s.insertions,
     substitutions |-> t.substitutions + s.substitutions,
     matches |-> t.matches + s.matches]

----------------------------------------------------------------------------
\* main, lines 499-510: the "words" list written for one alignment.  Only the
\* operations that have a reference word are written; the timing is written
\* as it stands, None included.

OutputWord(o, asr) ==
    IF o.asr_word >= 0
    THEN [word |-> o.ref_word, operation |-> o.op,
          timing |-> o.adjusted_timing, asr_word |-> asr[o.asr_word + 1].word,
          confidence |-> asr[o.asr_word + 1].confidence]
    ELSE [word |-> o.ref_word, operation |-> o.op,
          timing |-> o.adjusted_timing]

\* mutant: every operation is written, Delete included
HasRefWord_Always(o) == TRUE

\* "if op.ref_word"
HasRefWord(o) == o.ref_word # None

OutputWords(ops, asr) ==
    LET kept == SelectSeq(ops, HasRefWord)
    IN  [k \in 1..Len(kept) |-> OutputWord(kept[k], asr)]

----------------------------------------------------------------------------
\* find_overlapping_segments (lines 359-392).  Segments are the dicts of the
\* two JSON files, held as records; a key that a dict lacks is a field the
\* record lacks.  Segment times are integers here.  A pair holds references
\* to its two dicts: they are kept as the 1-based positions of the segments
\* in asr_segments and ref_segments.

Max2(a, b) == IF a >= b THEN a ELSE b

Min2(a, b) == IF a <= b THEN a ELSE b

HasKey(d, key) == key \in DOMAIN d

MinOf(S) == CHOOSE x \in S : \A y \in S : x <= y

MaxOf(S) == CHOOSE x \in S : \A y \in S : y <= x

\* lines 372-376: the time range of a hypothesis segment
AsrRange(asr_seg) ==
    IF HasKey(asr_seg, "turns")
    THEN <<MinOf({asr_seg.turns[t].start : t \in 1..Len(asr_seg.turns)}),
           MaxOf({asr_seg.turns[t].end : t \in 1..Len(asr_seg.turns)})>>
    ELSE <<asr_seg.start, asr_seg.end>>

\* lines 379-381
Overlap(ref_seg, asr_seg) ==
    LET overlap_start == Max2(ref_seg.start, AsrRange(asr_seg)[1])
        overlap_end == Min2(ref_seg.end, AsrRange(asr_seg)[2])
    IN  Max2(0, overlap_end - overlap_start)

\* mutant: a later segment with the same overlap replaces the earlier one
Better_OrEqual(overlap, best_overlap) == overlap >= best_overlap

\* "if overlap > best_overlap"
Better(overlap, best_overlap) == overlap > best_overlap

\* lines 366-385: the inner loop from hypothesis segment k on; best is
\* <<best_overlap, best_asr_seg>>, best_asr_seg 0 for None
RECURSIVE BestFrom(_, _, _, _)
BestFrom(asr_segs, ref_seg, k, best) ==
    IF k > Len(asr_segs) THEN best
    ELSE LET overlap == Overlap(ref_seg, asr_segs[k])
         IN  BestFrom(asr_segs, ref_seg, k + 1,
                      IF Better(overlap, best[1]) THEN <<overlap, k>> ELSE best)

\* "if best_overlap > 0"
Accepted(best) == best[1] > 0

\* lines 363-392: the outer loop from reference segment r on; the result is
\* the pairs and the warnings in the order they are produced
RECURSIVE PairFrom(_, _, _, _)
PairFrom(asr_segs, ref_segs, r, acc) ==
    IF r > Len(ref_segs) THEN acc
    ELSE LET best == BestFrom(asr_segs, ref_segs[r], 1, <<0, 0>>)
         IN  PairFrom(asr_segs, ref_segs, r + 1,
                IF Accepted(best)
                THEN [acc EXCEPT !.pairs = Append(@, [asr |-> best[2], ref |-> r])]
                ELSE [acc EXCEPT !.warnings = Append(@,
                        <<"WARNING: No overlapping ASR segment",
                          ref_segs[r].start, ref_segs[r].end>>)])

\* mutant: a hypothesis segment is paired with one reference segment only
find_overlapping_segments_OneToOne(asr_segs, ref_segs) ==
    LET res == PairFrom(asr_segs, ref_segs, 1, [pairs |-> <<>>, warnings |-> <<>>])
        First(i) == \A h \in 1..(i - 1) : res.pairs[h].asr # res.pairs[i].asr
        keep == {i \in 1..Len(res.pairs) : First(i)}
        RECURSIVE Kept(_)
        Kept(i) == IF i = 0 THEN <<>>
                   ELSE IF i \in keep THEN Append(Kept(i - 1), res.pairs[i])
                   ELSE Kept(i - 1)
    IN  [pairs |-> Kept(Len(res.pairs)), warnings |-> res.warnings]

find_overlapping_segments(asr_segs, ref_segs) ==
    PairFrom(asr_segs, ref_segs, 1, [pairs |-> <<>>, warnings |-> <<>>])

----------------------------------------------------------------------------
\* extract_asr_words (lines 394-422) and the text split of main (line 472).
\* main keeps only turns whose "words" list is not empty (line 455), so the
\* transcript fallback of extract_asr_words (lines 408-420) is never entered
\* from main and is not modelled.

KeyError == [error |-> TRUE]

\* lines 401-406: "word_info.get("word_with_punctuation", word_info["word"])"
\* evaluates word_info["word"] first, so every key of the three is needed
WordComplete(word_info) ==
    HasKey(word_info, "word") /\ HasKey(word_info, "start") /\ HasKey(word_info, "end")

MakeWordTiming(word_info) ==
    [word |-> IF HasKey(word_info, "word_with_punctuation")
              THEN word_info.word_with_punctuation ELSE word_info.word,
     start |-> word_info.start,
     end |-> word_info.end,
     confidence |-> IF HasKey(word_info, "confidence")
                    THEN word_info.confidence ELSE None]

extract_asr_words(asr_turn) ==
    IF \E k \in 1..Len(asr_turn.words) : ~WordComplete(asr_turn.words[k])
    THEN KeyError
    ELSE [error |-> FALSE,
          words |-> [k \in 1..Len(asr_turn.words) |-> MakeWordTiming(asr_turn.words[k])],
          start |-> asr_turn.start,
          end |-> asr_turn.end]

IsSpace(c) == c = " "

\* str.split() with no argument: the maximal runs of characters that are not
\* whitespace; cur is the word being read, acc the words read so far
RECURSIVE SplitFrom(_, _, _, _)
SplitFrom(text, k, cur, acc) ==
    IF k > Len(text)
    THEN IF cur = <<>> THEN acc ELSE Append(acc, cur)
    ELSE IF IsSpace(text[k])
         THEN SplitFrom(text, k + 1, <<>>,
                        IF cur = <<>> THEN acc ELSE Append(acc, cur))
         ELSE SplitFrom(text, k + 1, Append(cur, text[k]), acc)

split(text) == SplitFrom(text, 1, <<>>, <<>>)

----------------------------------------------------------------------------
\* Inputs.  Two families keep the state space small: word texts that differ
\* in case and punctuation with back-to-back one-second timings, and timings
\* drawn from a grid (zero and unit durations; positive, zero and negative
\* gaps) with a hypothesis that repeats one word against any reference over
\* two.

SeqsUpTo(S, k) == UNION {[1..j -> S] : j \in 0..k}

HypVocabulary == {<<"a">>, <<"B", ".">>}

RefVocabulary == {<<"a">>, <<"A", ".">>, <<"b">>, <<".">>}

PlainWords == {<<"a">>, <<"b">>}

StartTimes == {0, 1, 3}

Intervals == {<<s, e>> \in StartTimes \X (0..4) : e = s \/ e = s + 1}

\* the dataclass WordTiming; confidence is None unless given
WordTiming(w, s, e) ==
    [word |-> w, start |-> R(s), end |-> R(e), confidence |-> None]

\* word k has confidence k/10
TextHyps ==
    {[k \in 1..Len(ws) |->
        [WordTiming(ws[k], k - 1, k) EXCEPT !.confidence = <<k, 10>>]] :
        ws \in SeqsUpTo(HypVocabulary, MaxHyp)}

TimedHyps ==
    {[k \in 1..Len(ts) |-> WordTiming(<<"a">>, ts[k][1], ts[k][2])] :
        ts \in SeqsUpTo(Intervals, MaxHyp)}

\* four words said back to back, one second each, and their transcript with
\* one word more
QuickBrownFox ==
    <<WordTiming(<<"t", "h", "e">>, 0, 1),
      WordTiming(<<"q", "u", "i", "c", "k">>, 1, 2),
      WordTiming(<<"b", "r", "o", "w", "n">>, 2, 3),
      WordTiming(<<"f", "o", "x">>, 3, 4)>>

QuickBrownRedFox ==
    <<<<"t", "h", "e">>, <<"q", "u", "i", "c", "k">>, <<"b", "r", "o", "w", "n">>,
      <<"r", "e", "d">>, <<"f", "o", "x">>>>

\* three words said back to back and a transcript with a word more between
\* each two of them
BackToBack ==
    <<WordTiming(<<"a">>, 0, 1), WordTiming(<<"a">>, 1, 2), WordTiming(<<"a">>, 2, 3)>>

Interleaved == <<<<"a">>, <<"b">>, <<"a">>, <<"b">>, <<"a">>>>

\* words that are punctuation only or differ from the transcript in case and
\* punctuation only
Dashes == <<WordTiming(<<"-">>, 0, 1), WordTiming(<<"A">>, 1, 2)>>

Dots == <<<<".">>, <<"a", "!">>>>

\* a hypothesis with a word too many at its start and a word missing at its
\* end
Shifted ==
    <<WordTiming(<<"b">>, 0, 1), WordTiming(<<"a">>, 1, 2), WordTiming(<<"b">>, 2, 3)>>

ShiftedRef == <<<<"a">>, <<"b">>, <<"a">>>>

Inputs ==
    (TextHyps \X SeqsUpTo(RefVocabulary, MaxRef))
        \cup (TimedHyps \X SeqsUpTo(PlainWords, MaxRef))
        \cup {<<QuickBrownFox, QuickBrownRedFox>>, <<BackToBack, Interleaved>>,
              <<Dashes, Dots>>, <<Shifted, ShiftedRef>>}

----------------------------------------------------------------------------
\* The state machine of one align_segment call on a fresh TextAligner.

\* a TextAligner used without main: no debug file, nothing read or written
NoMain ==
    /\ asr_data = <<>>
    /\ ref_data = <<>>
    /\ debug_file = FALSE
    /\ debug_log = <<>>
    /\ asr_segments = <<>>
    /\ segment_pairs = <<>>
    /\ pair_i = 0
    /\ alignments = <<>>
    /\ output_data = None
    /\ stats_data = None
    /\ report_content = None

\* log_debug (lines 50-53): lines are written only when a debug file is given
log_debug(log, lines) == IF debug_file THEN log \o lines ELSE log

Init ==
    /\ \E inp \in Inputs : asr_words = inp[1] /\ ref_words = inp[2]
    /\ pc = "start"
    /\ dp = <<>>
    /\ backtrack = <<>>
    /\ edit_distance = 0
    /\ alignment_path = <<>>
    /\ operations = <<>>
    /\ stats = NoStats
    /\ scan_i = 0
    /\ total_stats = NoStats
    /\ NoMain

\* lines 283-317: compute the alignment, build the operations and the stats
Align ==
    /\ pc = "start"
    /\ \E res \in {compute_edit_distance(
                      [k \in 1..Len(asr_words) |-> asr_words[k].word], ref_words)} :
           /\ dp' = res.dp
           /\ backtrack' = res.backtrack
           /\ edit_distance' = res.distance
           /\ alignment_path' = res.path
           /\ operations' = [k \in 1..Len(res.path) |->
                                MakeOperation(res.path[k], asr_words, ref_words)]
           /\ stats' = MakeStats(res.path)
           /\ debug_log' = log_debug(debug_log,
                  <<<<"Aligning segment", pair_i>>,
                    <<"ASR words", [k \in 1..Len(asr_words) |-> asr_words[k].word]>>,
                    <<"Ref words", ref_words>>,
                    <<"Edit distance", res.distance>>>>)
    /\ scan_i' = 0
    /\ pc' = "scan"
    /\ UNCHANGED <<asr_words, ref_words, total_stats, mainvars>>

Scanning == pc = "scan" /\ scan_i < Len(operations)

\* mutant: the timing given to an operation is written into its hypothesis word
ScanStep_WriteBack(ops) ==
    /\ operations' = ops
    /\ scan_i' = scan_i + 1
    /\ asr_words' =
          [k \in 1..Len(asr_words) |->
              IF \E q \in 1..Len(ops) : ops[q].asr_word = k - 1
              THEN LET q == CHOOSE q \in 1..Len(ops) : ops[q].asr_word = k - 1
                   IN  [asr_words[k] EXCEPT !.start = ops[q].adjusted_timing[1],
                                            !.end = ops[q].adjusted_timing[2]]
              ELSE asr_words[k]]
    /\ UNCHANGED <<ref_words, pc, dp, backtrack, edit_distance,
                   alignment_path, stats, total_stats, mainvars, debug_log>>

\* one iteration of the loop of adjust_timing_for_insertions (lines 139-189)
ScanStep(ops) ==
    /\ operations' = ops
    /\ scan_i' = scan_i + 1
    /\ UNCHANGED <<asr_words, ref_words, pc, dp, backtrack, edit_distance,
                   alignment_path, stats, total_stats, mainvars, debug_log>>

\* "if op.op != EditOp.INSERT: continue"
ScanSkip ==
    /\ Scanning
    /\ operations[scan_i + 1].op # "I"
    /\ ScanStep(operations)

ScanGapFill ==
    /\ Scanning
    /\ operations[scan_i + 1].op = "I"
    /\ BothNeighbours(operations, scan_i + 1)
    /\ RPos(AvailableTime(operations, scan_i + 1))
    /\ ScanStep(GapFill(operations, scan_i + 1))

ScanBorrow ==
    /\ Scanning
    /\ operations[scan_i + 1].op = "I"
    /\ BothNeighbours(operations, scan_i + 1)
    /\ ~RPos(AvailableTime(operations, scan_i + 1))
    /\ ScanStep(reduce_adjacent_words_timing(
                    operations, InsertionGroup(operations, scan_i + 1), scan_i + 1))

ScanEdge ==
    /\ Scanning
    /\ operations[scan_i + 1].op = "I"
    /\ ~BothNeighbours(operations, scan_i + 1)
    /\ ScanStep(handle_edge_insertions(
                    operations, InsertionGroup(operations, scan_i + 1), scan_i + 1))

\* lines 322-337: after the scan, the substitution pass and the global update
Finish ==
    /\ pc = "scan"
    /\ scan_i = Len(operations)
    /\ operations' = adjust_substitution_timings(operations)
    /\ total_stats' = AddStats(total_stats, stats)
    /\ pc' = "done"
    /\ UNCHANGED <<asr_words, ref_words, dp, backtrack, edit_distance,
                   alignment_path, stats, scan_i, mainvars, debug_log>>

Next ==
    \/ Align
    \/ ScanSkip
    \/ ScanGapFill
    \/ ScanBorrow
    \/ ScanEdge
    \/ Finish

Spec == Init /\ [][Next]_vars

----------------------------------------------------------------------------
\* The run of main (lines 446-526) on one TextAligner.  asr_data is the list
\* of the turns of all sections of the ASR file, in file order; ref_data is
\* the "segments" list of the reference file.

MaxTurns == 2

MaxRefSegs == 2

WordInfo(w, s, e) == [word |-> w, start |-> R(s), end |-> R(e)]

TurnA ==
    [start |-> 0, end |-> 4,
     words |-> <<WordInfo(<<"a">>, 0, 1), WordInfo(<<"b">>, 1, 2)>>]

TurnB ==
    [start |-> 3, end |-> 12,
     words |-> <<[word |-> <<"a">>, word_with_punctuation |-> <<"A", ".">>,
                  start |-> R(3), end |-> R(4), confidence |-> <<9, 10>>]>>]

\* a segment that has a "turns" list of its own: its range is [5, 8]
TurnNested ==
    [start |-> 5, end |-> 6,
     turns |-> <<[start |-> 6, end |-> 8], [start |-> 5, end |-> 7]>>,
     words |-> <<WordInfo(<<"a">>, 5, 5), WordInfo(<<"b">>, 6, 7)>>]

TurnNoWords == [start |-> 0, end |-> 14, words |-> <<>>]

\* the second word record has no "start"
TurnBadWord ==
    [start |-> 0, end |-> 4,
     words |-> <<WordInfo(<<"a">>, 0, 1), [word |-> <<"b">>, end |-> R(2)]>>]

Turns == {TurnA, TurnB, TurnNested, TurnNoWords, TurnBadWord}

RefA == [start |-> 0, end |-> 10, text |-> <<"a", " ", "b", " ", "b">>]

RefB == [start |-> 12, end |-> 14, text |-> <<"a">>]

RefC == [start |-> 2, end |-> 5, text |-> <<"b", " ", " ", "a", " ", "b">>]

RefNoText == [start |-> 0, end |-> 10]

RefSegments == {RefA, RefB, RefC, RefNoText}

MainInit ==
    /\ asr_data \in SeqsUpTo(Turns, MaxTurns)
    /\ ref_data \in SeqsUpTo(RefSegments, MaxRefSegs)
    /\ debug_file \in BOOLEAN
    /\ debug_log = <<>>
    /\ asr_segments = <<>>
    /\ segment_pairs = <<>>
    /\ pair_i = 0
    /\ alignments = <<>>
    /\ output_data = None
    /\ stats_data = None
    /\ report_content = None
    /\ pc = "main"
    /\ asr_words = <<>>
    /\ ref_words = <<>>
    /\ dp = <<>>
    /\ backtrack = <<>>
    /\ edit_distance = 0
    /\ alignment_path = <<>>
    /\ operations = <<>>
    /\ stats = NoStats
    /\ scan_i = 0
    /\ total_stats = NoStats

callvars == <<asr_words, ref_words, dp, backtrack, edit_distance,
              alignment_path, operations, stats, scan_i, total_stats>>

\* "if "words" in turn and turn["words"]"
HasWords(turn) == HasKey(turn, "words") /\ turn.words # <<>>

\* lines 447-464: the segments are read and paired
Pairing ==
    /\ pc = "main"
    /\ \E segs \in {SelectSeq(asr_data, HasWords)} :
       \E res \in {find_overlapping_segments(segs, ref_data)} :
           /\ asr_segments' = segs
           /\ segment_pairs' = res.pairs
           /\ debug_log' = log_debug(debug_log,
                  <<<<"Found segments", Len(segs), Len(ref_data)>>>>
                      \o res.warnings
                      \o <<<<"Found pairs", Len(res.pairs)>>>>)
    /\ pc' = "loop"
    /\ UNCHANGED <<callvars, asr_data, ref_data, debug_file, pair_i,
                   alignments, output_data, stats_data, report_content>>

InLoop == pc = "loop" /\ pair_i < Len(segment_pairs)

asr_seg == asr_segments[segment_pairs[pair_i + 1].asr]

ref_seg == ref_data[segment_pairs[pair_i + 1].ref]

\* lines 471-472 raise no KeyError for the pair
PairReadable ==
    /\ ~extract_asr_words(asr_seg).error
    /\ HasKey(ref_seg, "text")

\* lines 469-481: the words of the pair are read and align_segment is entered
ExtractWords ==
    /\ InLoop
    /\ PairReadable
    /\ asr_words' = extract_asr_words(asr_seg).words
    /\ ref_words' = split(ref_seg.text)
    /\ pc' = "start"
    /\ UNCHANGED <<dp, backtrack, edit_distance, alignment_path, operations,
                   stats, scan_i, total_stats, mainvars, debug_log>>

\* lines 471-472 raise KeyError: nothing in main catches it, the finally
\* block closes the debug file and the run ends before anything is written
ExtractRaises ==
    /\ InLoop
    /\ ~PairReadable
    /\ pc' = "raised"
    /\ UNCHANGED <<callvars, mainvars, debug_log>>

\* lines 329-337 and 482: the SegmentAlignment of the call is appended.  The
\* operations refer to the WordTiming objects of the call; as they hold them
\* by position, the words of the call are kept next to the operations.
AppendAlignment ==
    /\ pc = "done"
    /\ alignments' = Append(alignments,
          [segment_id |-> pair_i,
           asr_start |-> extract_asr_words(asr_seg).start,
           asr_end |-> extract_asr_words(asr_seg).end,
           ref_start |-> ref_seg.start,
           ref_end |-> ref_seg.end,
           operations |-> operations,
           asr_words |-> asr_words,
           stats |-> stats])
    /\ pair_i' = pair_i + 1
    /\ pc' = "loop"
    /\ UNCHANGED <<callvars, asr_data, ref_data, debug_file, debug_log,
                   asr_segments, segment_pairs, output_data, stats_data,
                   report_content>>

\* lines 491-497
alignment_dict(alignment) ==
    [segment_id |-> alignment.segment_id,
     asr_timing |-> [start |-> alignment.asr_start, end |-> alignment.asr_end],
     ref_timing |-> [start |-> alignment.ref_start, end |-> alignment.ref_end],
     words |-> OutputWords(alignment.operations, alignment.asr_words),
     statistics |-> alignment.stats]

\* lines 484-519: the two files are written
WriteOutput ==
    /\ pc = "loop"
    /\ pair_i = Len(segment_pairs)
    /\ output_data' =
          [alignments |-> [k \in 1..Len(alignments) |-> alignment_dict(alignments[k])],
           total_statistics |-> total_stats]
    /\ stats_data' = total_stats
    /\ pc' = "written"
    /\ UNCHANGED <<callvars, asr_data, ref_data, debug_file, debug_log,
                   asr_segments, segment_pairs, pair_i, alignments,
                   report_content>>

MainNext ==
    \/ Pairing
    \/ ExtractWords
    \/ ExtractRaises
    \/ Align
    \/ ScanSkip
    \/ ScanGapFill
    \/ ScanBorrow
    \/ ScanEdge
    \/ Finish
    \/ AppendAlignment
    \/ WriteOutput

MainSpec == MainInit /\ [][MainNext]_vars

----------------------------------------------------------------------------
\* bin/alignment_stats.py: the report made from the statistics JSON.  A
\* percentage is an exact rational; a number printed with ":.2f" or ":.3f"
\* is held as the integer count of hundredths or thousandths nearest to it
\* (no value within the bounds lies halfway between two of them).

MaxCount == 2

\* "stats_data.get(key, 0)"
Get(d, key) == IF HasKey(d, key) THEN d[key] ELSE 0

\* lines 27-32 and 137
total_operations(d) ==
    Get(d, "deletions") + Get(d, "insertions") + Get(d, "substitutions")
        + Get(d, "matches")

\* lines 46 and 138
report_edit_distance(d) ==
    Get(d, "substitutions") + Get(d, "insertions") + Get(d, "deletions")

\* lines 47 and 139
accuracy(d) ==
    IF total_operations(d) > 0
    THEN RNorm(Get(d, "matches") * 100, total_operations(d))
    ELSE R(0)

\* "100 - accuracy" (lines 54 and 146)
error_rate(d) == RSub(R(100), accuracy(d))

\* f"{x:.2f}" and f"{x:.3f}" of a rational that is not negative
Fixed(x, scale) == (2 * scale * x[1] + x[2]) \div (2 * x[2])

\* lines 59-60
reference_words(d) ==
    Get(d, "matches") + Get(d, "substitutions") + Get(d, "insertions")

report_asr_words(d) ==
    Get(d, "matches") + Get(d, "substitutions") + Get(d, "deletions")

\* line 83; accuracy here is the percentage
quality_assessment(d) ==
    IF ~RLess(accuracy(d), R(95)) THEN "EXCELLENT"
    ELSE IF ~RLess(accuracy(d), R(85)) THEN "GOOD"
    ELSE IF ~RLess(accuracy(d), R(70)) THEN "FAIR"
    ELSE "POOR"

\* format_stats_report (lines 14-116): the numbers of the sections SUMMARY,
\* ACCURACY METRICS, WORD COVERAGE and ALIGNMENT QUALITY ASSESSMENT.  The
\* per-operation percentage lines, the date and the recommendation lines are
\* further text made from the same counters and are left out.
format_stats_report(d) ==
    [format |-> "text",
     total_operations |-> total_operations(d),
     edit_distance |-> report_edit_distance(d),
     accuracy |-> Fixed(accuracy(d), 100),
     error_rate |-> Fixed(error_rate(d), 100),
     reference_words |-> reference_words(d),
     asr_words |-> report_asr_words(d),
     coverage_ratio |->
        IF report_asr_words(d) > 0
        THEN Fixed(RNorm(reference_words(d), report_asr_words(d)), 1000)
        ELSE "N/A",
     quality |-> quality_assessment(d)]

\* main, lines 135-148: the counters with the computed metrics added
enhanced_stats(d) ==
    [format |-> "json",
     stats |-> [total_operations |-> total_operations(d),
                edit_distance |-> report_edit_distance(d),
                accuracy_percent |-> accuracy(d),
                error_rate_percent |-> error_rate(d)] @@ d]

\* main, lines 149-163: the rows "metric,value"
csv_report(d) ==
    [format |-> "csv",
     rows |-> <<<<"matches", Get(d, "matches")>>,
                <<"substitutions", Get(d, "substitutions")>>,
                <<"insertions", Get(d, "insertions")>>,
                <<"deletions", Get(d, "deletions")>>,
                <<"total_operations", total_operations(d)>>,
                <<"edit_distance", report_edit_distance(d)>>,
                <<"accuracy_percent", Fixed(accuracy(d), 100)>>,
                <<"error_rate_percent", Fixed(error_rate(d), 100)>>>>]

StatsInputs ==
    [{"deletions", "insertions", "substitutions", "matches"} -> 0..MaxCount]
        \cup {[matches |-> c] : c \in 0..MaxCount}

StatsInit ==
    /\ stats_data \in StatsInputs
    /\ report_content = None
    /\ pc = "stats"
    /\ asr_data = <<>>
    /\ ref_data = <<>>
    /\ debug_file = FALSE
    /\ debug_log = <<>>
    /\ asr_segments = <<>>
    /\ segment_pairs = <<>>
    /\ pair_i = 0
    /\ alignments = <<>>
    /\ output_data = None
    /\ asr_words = <<>>
    /\ ref_words = <<>>
    /\ dp = <<>>
    /\ backtrack = <<>>
    /\ edit_distance = 0
    /\ alignment_path = <<>>
    /\ operations = <<>>
    /\ stats = NoStats
    /\ scan_i = 0
    /\ total_stats = NoStats

Report(content) ==
    /\ pc = "stats"
    /\ report_content' = content
    /\ pc' = "reported"
    /\ UNCHANGED <<callvars, asr_data, ref_data, debug_file, debug_log,
                   asr_segments, segment_pairs, pair_i, alignments,
                   output_data, stats_data>>

ReportText == Report(format_stats_report(stats_data))

ReportJson == Report(enhanced_stats(stats_data))

ReportCsv == Report(csv_report(stats_data))

StatsNext ==
    \/ ReportText
    \/ ReportJson
    \/ ReportCsv

StatsSpec == StatsInit /\ [][StatsNext]_vars

----------------------------------------------------------------------------
\* Properties of compute_edit_distance and align_segment, read off the state
\* in which align_segment has returned.

Done == pc = "done"

HypLen == Len(asr_words)

RefLen == Len(ref_words)

IsHypOp(e) == e[1] \in {"M", "S", "D"}

IsRefOp(e) == e[1] \in {"M", "S", "I"}

\* the hypothesis indices of the Match/Substitute/Delete entries, in path order
HypIndices(path) ==
    LET sel == SelectSeq(path, IsHypOp) IN [k \in 1..Len(sel) |-> sel[k][2]]

\* the reference indices of the Match/Substitute/Insert entries, in path order
RefIndices(path) ==
    LET sel == SelectSeq(path, IsRefOp) IN [k \in 1..Len(sel) |-> sel[k][3]]

\* C1: the path covers both sequences completely and in order: the hypothesis
\* indices of its M/S/D entries are 0..m-1 increasing, the reference indices
\* of its M/S/I entries are 0..n-1 increasing, and the per-segment statistics
\* satisfy matches+substitutions+deletions = m, matches+substitutions+insertions = n.
C1_Coverage ==
    Done =>
        /\ HypIndices(alignment_path) = [k \in 1..HypLen |-> k - 1]
        /\ RefIndices(alignment_path) = [k \in 1..RefLen |-> k - 1]
        /\ \A k \in 1..Len(alignment_path) :
              /\ alignment_path[k][1] = "D" => alignment_path[k][3] = -1
              /\ alignment_path[k][1] = "I" => alignment_path[k][2] = -1
        /\ stats.matches + stats.substitutions + stats.deletions = HypLen
        /\ stats.matches + stats.substitutions + stats.insertions = RefLen

C1_Witness ==
    /\ pc = "done"
    /\ HypLen = 2
    /\ RefLen = 3
    /\ stats.matches = 1
    /\ stats.substitutions = 1
    /\ stats.insertions = 1

\* brute-force reference: the cheapest of all alignments of asr[i..] with
\* ref[j..], trying every operation at every position (match 0, others 1)
RECURSIVE BruteForce(_, _, _, _)
BruteForce(asr, ref, i, j) ==
    IF i > Len(asr) THEN Len(ref) - j + 1
    ELSE IF j > Len(ref) THEN Len(asr) - i + 1
    ELSE Min2(BruteForce(asr, ref, i + 1, j + 1)
                + (IF normalize_word(asr[i]) = normalize_word(ref[j]) THEN 0 ELSE 1),
              Min2(BruteForce(asr, ref, i + 1, j) + 1,
                   BruteForce(asr, ref, i, j + 1) + 1))

AsrStrings == [k \in 1..HypLen |-> asr_words[k].word]

PathCost(path) == Cardinality({k \in 1..Len(path) : path[k][1] \in {"S", "I", "D"}})

\* C2: the returned distance is the minimum cost over all alignments, and the
\* returned path has that cost (its Substitute + Insert + Delete entries).
C2_MinimumDistance ==
    Done =>
        /\ edit_distance = BruteForce(AsrStrings, ref_words, 1, 1)
        /\ PathCost(alignment_path) = edit_distance

C2_Witness ==
    /\ pc = "done"
    /\ HypLen = 2
    /\ RefLen = 4
    /\ edit_distance = 3
    /\ stats.matches = 1

\* the table cell reached after the first k entries of the path
RECURSIVE CellAfter(_, _)
CellAfter(path, k) ==
    IF k = 0 THEN <<0, 0>>
    ELSE LET c == CellAfter(path, k - 1)
             e == path[k]
         IN  IF e[1] = "D" THEN <<c[1] + 1, c[2]>>
             ELSE IF e[1] = "I" THEN <<c[1], c[2] + 1>>
             ELSE <<c[1] + 1, c[2] + 1>>

\* C3: at every cell (i >= 1, j >= 1) the recorded decision is the diagonal
\* move whenever the diagonal attains the cell's minimum, Delete only when it
\* is strictly cheaper than the diagonal, Insert only when it is strictly
\* cheaper than both; and the returned path is the chain of recorded
\* decisions leading from (0,0) to (m,n).
C3_TieBreaking ==
    Done =>
        /\ \A i \in 1..HypLen, j \in 1..RefLen :
              LET same == normalize_word(asr_words[i].word) = normalize_word(ref_words[j])
                  diag == dp[i-1][j-1] + (IF same THEN 0 ELSE 1)
                  del == dp[i-1][j] + 1
                  ins == dp[i][j-1] + 1
                  best == Min2(diag, Min2(del, ins))
                  dec == backtrack[i][j]
              IN  /\ dp[i][j] = best
                  /\ diag = best =>
                        dec = <<(IF same THEN "M" ELSE "S"), i - 1, j - 1>>
                  /\ dec[1] = "D" => del < diag /\ dec = <<"D", i - 1, j>>
                  /\ dec[1] = "I" => ins < diag /\ ins < del /\ dec = <<"I", i, j - 1>>
        /\ CellAfter(alignment_path, Len(alignment_path)) = <<HypLen, RefLen>>
        /\ \A k \in 1..Len(alignment_path) :
              LET c == CellAfter(alignment_path, k)
                  d == backtrack[c[1]][c[2]]
                  e == alignment_path[k]
              IN  /\ d # None
                  /\ d[1] = e[1]
                  /\ e[1] \in {"M", "S"} => e[2] = c[1] - 1 /\ e[3] = c[2] - 1
                  /\ e[1] = "D" => e[2] = c[1] - 1
                  /\ e[1] = "I" => e[3] = c[2] - 1

\* a cell where all three candidates tie and the diagonal is recorded
C3_Witness ==
    /\ pc = "done"
    /\ HypLen = 2
    /\ RefLen = 2
    /\ dp[1][1] + 1 = dp[1][2] + 1
    /\ dp[1][1] + 1 = dp[2][1] + 1
    /\ backtrack[2][2] = <<"S", 1, 1>>
    /\ alignment_path = <<<<"S", 0, 0>>, <<"S", 1, 1>>>>

\* C4: with an empty hypothesis the result is distance n and n Insert entries
\* in reference order; with an empty reference distance m and m Delete
\* entries in hypothesis order; with both empty distance 0 and an empty path.
C4_EmptyInputs ==
    Done =>
        /\ HypLen = 0 =>
              /\ edit_distance = RefLen
              /\ alignment_path = [k \in 1..RefLen |-> <<"I", -1, k - 1>>]
        /\ RefLen = 0 =>
              /\ edit_distance = HypLen
              /\ alignment_path = [k \in 1..HypLen |-> <<"D", k - 1, -1>>]

C4_Witness ==
    /\ pc = "done"
    /\ HypLen = 0
    /\ RefLen = 3
    /\ edit_distance = 3
    /\ Len(operations) = 3

----------------------------------------------------------------------------
\* Properties of the timing reconstruction, read off the returned operations.

\* the hypothesis token an operation refers to (operations other than Insert)
HypWord(o) == asr_words[o.asr_word + 1]

HypTiming(o) == <<HypWord(o).start, HypWord(o).end>>

IsInsert(p) == operations[p].op = "I"

\* <<lo, hi>> is a maximal run of consecutive Insert operations
IsRun(lo, hi) ==
    /\ lo <= hi
    /\ \A q \in lo..hi : IsInsert(q)
    /\ lo = 1 \/ ~IsInsert(lo - 1)
    /\ hi = Len(operations) \/ ~IsInsert(hi + 1)

Runs ==
    {r \in (1..Len(operations)) \X (1..Len(operations)) : IsRun(r[1], r[2])}

\* runs with a timed operation on both sides, at the start, at the end
InnerRuns == {r \in Runs : r[1] > 1 /\ r[2] < Len(operations)}

\* the i-th of the slots of width per laid out from start (i counted from 0)
Slot(start, per, i) ==
    <<RAdd(start, RTimes(per, i)), RAdd(start, RTimes(per, i + 1))>>

\* every member of run r holds its slot
RunHoldsSlots(r, start, per) ==
    \A q \in r[1]..r[2] :
        operations[q].adjusted_timing = Slot(start, per, q - r[1])

\* C5 as stated: every Match and Substitute ends with the timing of its
\* hypothesis token, verbatim.
C5_Original ==
    Done =>
        \A p \in 1..Len(operations) :
            operations[p].op \in {"M", "S"} =>
                operations[p].adjusted_timing = HypTiming(operations[p])

\* C5 amended: a Match/Substitute keeps its hypothesis timing except on a
\* side that touches an Insert: its start is the hypothesis start unless the
\* operation before it is an Insert, its end is the hypothesis end unless the
\* operation after it is an Insert.
C5_VerbatimUnlessBorrowed ==
    Done =>
        \A p \in 1..Len(operations) :
            operations[p].op \in {"M", "S"} =>
                /\ operations[p].adjusted_timing # None
                /\ (p = 1 \/ ~IsInsert(p - 1)) =>
                      operations[p].adjusted_timing[1] = HypWord(operations[p]).start
                /\ (p = Len(operations) \/ ~IsInsert(p + 1)) =>
                      operations[p].adjusted_timing[2] = HypWord(operations[p]).end

\* a Match whose end was shortened for the Insert after it, start untouched
C5_Witness ==
    /\ Done
    /\ Len(operations) = 3
    /\ operations[1].op = "M"
    /\ operations[2].op = "I"
    /\ HypTiming(operations[1]) = <<R(0), R(1)>>
    /\ operations[1].adjusted_timing = <<R(0), <<67, 100>>>>

\* every operation that is not an Insert is left as it is by the step
NonInsertsUnchanged ==
    /\ Len(operations') = Len(operations)
    /\ \A q \in 1..Len(operations) :
          operations[q].op # "I" => operations'[q] = operations[q]

\* the resolved timings of the runs that have a positive gap
C6_FinalTimings ==
    Done =>
        \A r \in InnerRuns :
            LET prev_end == HypWord(operations[r[1] - 1]).end
                next_start == HypWord(operations[r[2] + 1]).start
                g == RSub(next_start, prev_end)
            IN  RPos(g) =>
                    /\ RunHoldsSlots(r, prev_end, RDiv(g, GroupLen(r)))
                    /\ operations[r[1] - 1].adjusted_timing[2] = prev_end
                    /\ operations[r[2] + 1].adjusted_timing[1] = next_start

C6_WitnessPair ==
    /\ Done
    /\ Len(operations) = 4
    /\ operations[1].adjusted_timing = <<R(0), R(0)>>
    /\ operations[2].op = "I"
    /\ operations[2].adjusted_timing = <<R(0), <<3, 2>>>>
    /\ operations[3].op = "I"
    /\ operations[3].adjusted_timing = <<<<3, 2>>, R(3)>>
    /\ operations[4].adjusted_timing = <<R(3), R(4)>>

\* C7: a maximal Insert run between a preceding operation [a,b] and a
\* following operation [c,d] with c - b <= 0 ends with the preceding end at
\* b' = b - 0.33*(b-a), the following start at c + 0.33*(d-c), and its i-th
\* word at [b' + i*R/k, b' + (i+1)*R/k], R = 0.33*(b-a) + 0.33*(d-c).
\* (a is the start the preceding operation has when the run is reached, which
\* no later step changes; b, c, d are the hypothesis values, which no earlier
\* step changes.)
C7_Borrow ==
    Done =>
        \A r \in InnerRuns :
            LET P == operations[r[1] - 1]
                N == operations[r[2] + 1]
                a == P.adjusted_timing[1]
                b == HypWord(P).end
                c == HypWord(N).start
                d == HypWord(N).end
                fromPrev == RMul(RSub(b, a), reduction_factor)
                fromNext == RMul(RSub(d, c), reduction_factor)
                reclaimed == RAdd(fromPrev, fromNext)
                newEnd == RSub(b, fromPrev)
            IN  ~RPos(RSub(c, b)) =>
                    /\ P.adjusted_timing[2] = newEnd
                    /\ N.adjusted_timing[1] = RAdd(c, fromNext)
                    /\ RunHoldsSlots(r, newEnd, RDiv(reclaimed, GroupLen(r)))

\* Round to four decimal places, in units of 0.0001
Round4(x) == (2 * 10000 * x[1] + x[2]) \div (2 * x[2])

\* hypothesis words [0,1] and [1,2] with exactly one Insert between them
C8_Scenario ==
    /\ Done
    /\ Len(asr_words) = 2
    /\ <<asr_words[1].start, asr_words[1].end>> = <<R(0), R(1)>>
    /\ <<asr_words[2].start, asr_words[2].end>> = <<R(1), R(2)>>
    /\ Len(operations) = 3
    /\ operations[1].op \in {"M", "S"}
    /\ operations[2].op = "I"
    /\ operations[3].op \in {"M", "S"}

Timing4(p) ==
    IF operations[p].adjusted_timing = None THEN None
    ELSE <<Round4(operations[p].adjusted_timing[1]),
           Round4(operations[p].adjusted_timing[2])>>

\* C8 as stated: previous [0.0,0.6667], next [1.3333,2.0], inserted
\* [0.6667,1.3333], to four decimal places.
C8_Original ==
    C8_Scenario =>
        /\ Timing4(1) = <<0, 6667>>
        /\ Timing4(2) = <<6667, 13333>>
        /\ Timing4(3) = <<13333, 20000>>

\* C8 amended: with reduction_factor 0.33 the previous word is [0.0,0.67],
\* the next word is [1.33,2.0] and the inserted word occupies [0.67,1.33].
C8_BorrowExample ==
    C8_Scenario =>
        /\ operations[1].adjusted_timing = <<R(0), <<67, 100>>>>
        /\ operations[2].adjusted_timing = <<<<67, 100>>, <<133, 100>>>>
        /\ operations[3].adjusted_timing = <<<<133, 100>>, R(2)>>

C8_Witness ==
    /\ C8_Scenario
    /\ operations[1].op = "M"
    /\ operations[3].op = "M"
    /\ Timing4(2) = <<6700, 13300>>

\* the resolved timings of the runs at the two ends of the sequence
C9_FinalTimings ==
    Done =>
        \A r \in Runs :
            /\ (r[1] = 1 /\ r[2] < Len(operations)) =>
                  LET s == HypWord(operations[r[2] + 1]).start
                  IN  /\ RunHoldsSlots(
                            r, RSub(s, RTimes(base_duration, GroupLen(r))),
                            base_duration)
                      /\ operations[r[2]].adjusted_timing[2] = s
                      /\ operations[r[2] + 1].adjusted_timing[1] = s
            /\ (r[1] > 1 /\ r[2] = Len(operations)) =>
                  LET e == HypWord(operations[r[1] - 1]).end
                  IN  /\ RunHoldsSlots(r, e, base_duration)
                      /\ operations[r[1] - 1].adjusted_timing[2] = e

C10_AllInsertions ==
    (Done /\ HypLen = 0 /\ RefLen >= 1) =>
        /\ Len(operations) = RefLen
        /\ \A q \in 1..Len(operations) :
              /\ operations[q].op = "I"
              /\ operations[q].ref_word = ref_words[q]
              /\ operations[q].adjusted_timing = Slot(R(0), base_duration, q - 1)

C10_Witness ==
    /\ Done
    /\ HypLen = 0
    /\ RefLen = 3
    /\ operations[3].op = "I"
    /\ operations[3].adjusted_timing = <<<<1, 5>>, <<3, 10>>>>

----------------------------------------------------------------------------
\* Order of the two ends of a resolved timing.

RLeq(x, y) == x[1] * y[2] <= y[1] * x[2]

Duration(t) == RSub(t[2], t[1])

\* every hypothesis word of the call has start <= end
HypWellFormed ==
    \A k \in 1..HypLen : RLeq(asr_words[k].start, asr_words[k].end)

\* C11: if every hypothesis word has start <= end then, after align_segment,
\* every operation that has a resolved timing has start <= end, whatever the
\* operation sequence and however often the same neighbour was borrowed from.
C11_StartBeforeEnd ==
    (Done /\ HypWellFormed) =>
        \A p \in 1..Len(operations) :
            Timed(operations[p]) =>
                RLeq(operations[p].adjusted_timing[1],
                     operations[p].adjusted_timing[2])

\* a Match or Substitute of positive duration that was borrowed from twice:
\* it is left with (1 - reduction_factor)^2 of its hypothesis duration
C11_Witness ==
    /\ Done
    /\ \E p \in 1..Len(operations) :
          /\ operations[p].op \in {"M", "S"}
          /\ RPos(Duration(HypTiming(operations[p])))
          /\ Duration(operations[p].adjusted_timing) =
                RMul(Duration(HypTiming(operations[p])),
                     RMul(RSub(R(1), reduction_factor),
                          RSub(R(1), reduction_factor)))

----------------------------------------------------------------------------
\* The words written to the output for the call.

Words == OutputWords(operations, asr_words)

\* runs between two zero-length neighbours that touch: nothing to fill and
\* nothing to borrow
StuckRuns ==
    {r \in InnerRuns :
        LET P == HypTiming(operations[r[1] - 1])
            N == HypTiming(operations[r[2] + 1])
        IN  P[1] = P[2] /\ N[1] = N[2] /\ P[2] = N[1]}

\* C12: after timing reconstruction every word written to the output (every
\* Match, Substitute and Insert) has a timing that is not null, and the
\* words of an insertion run that can neither fill a gap nor borrow are given
\* the fallback duration.
C12_NoNullTiming ==
    Done =>
        /\ \A k \in 1..Len(Words) : Words[k].timing # None
        /\ \A r \in StuckRuns : \A q \in r[1]..r[2] :
              /\ Timed(operations[q])
              /\ Duration(operations[q].adjusted_timing) = base_duration

----------------------------------------------------------------------------
\* Properties of find_overlapping_segments, read off the run of main once
\* the segments are paired.

Paired == pc # "main"

\* the overlap of reference segment r with hypothesis segment k, the time
\* range of a hypothesis segment being the one the pairing reads
PairOverlap(r, k) ==
    LET ref == ref_data[r]
        hyp == AsrRange(asr_segments[k])
    IN  Max2(0, Min2(ref.end, hyp[2]) - Max2(ref.start, hyp[1]))

\* C13: find_overlapping_segments returns at most one pair per reference
\* segment, in the order of the reference segments; the hypothesis segment
\* of a pair has a positive overlap that no other hypothesis segment
\* exceeds, and it is the first in input order of those with that overlap;
\* reference [0,10] with hypothesis segments [0,4] and [3,12] pairs with
\* [3,12].
C13_Pairing ==
    Paired =>
        /\ \A i, j \in 1..Len(segment_pairs) :
              i < j => segment_pairs[i].ref < segment_pairs[j].ref
        /\ \A i \in 1..Len(segment_pairs) :
              LET r == segment_pairs[i].ref
                  a == segment_pairs[i].asr
              IN  /\ r \in 1..Len(ref_data)
                  /\ a \in 1..Len(asr_segments)
                  /\ PairOverlap(r, a) > 0
                  /\ \A k \in 1..Len(asr_segments) :
                        PairOverlap(r, k) <= PairOverlap(r, a)
                  /\ \A k \in 1..(a - 1) : PairOverlap(r, k) < PairOverlap(r, a)
        /\ \A r \in 1..Len(ref_data) :
              ( /\ ref_data[r].start = 0 /\ ref_data[r].end = 10
                /\ Len(asr_segments) = 2
                /\ AsrRange(asr_segments[1]) = <<0, 4>>
                /\ AsrRange(asr_segments[2]) = <<3, 12>> )
              => \E i \in 1..Len(segment_pairs) :
                    segment_pairs[i] = [asr |-> 2, ref |-> r]

\* two reference segments are paired, one of them with the first of two
\* hypothesis segments that overlap it equally, the other being the example
C13_Witness ==
    /\ Paired
    /\ Len(segment_pairs) = 2
    /\ Len(asr_segments) = 2
    /\ \E i \in 1..2 :
          /\ segment_pairs[i].asr = 1
          /\ PairOverlap(segment_pairs[i].ref, 2) = PairOverlap(segment_pairs[i].ref, 1)
    /\ \E i \in 1..2 :
          /\ segment_pairs[i].asr = 2
          /\ AsrRange(asr_segments[1]) = <<0, 4>>
          /\ AsrRange(asr_segments[2]) = <<3, 12>>
          /\ ref_data[segment_pairs[i].ref].end = 10

\* reference segments that overlap no hypothesis segment
Unmatched ==
    {r \in 1..Len(ref_data) :
        \A k \in 1..Len(asr_segments) : PairOverlap(r, k) = 0}

PairedRefs == {segment_pairs[i].ref : i \in 1..Len(segment_pairs)}

\* the counters of the first k alignments, added up
RECURSIVE SumStats(_, _)
SumStats(als, k) ==
    IF k = 0 THEN NoStats ELSE AddStats(SumStats(als, k - 1), als[k].stats)

\* an excluded reference segment gets no pair, no call and no count, and
\* every other reference segment is paired
C14_ExcludedOnly ==
    Paired =>
        /\ PairedRefs = (1..Len(ref_data)) \ Unmatched
        /\ Len(alignments) <= Len(segment_pairs)
        /\ \A k \in 1..Len(alignments) :
              /\ alignments[k].ref_start = ref_data[segment_pairs[k].ref].start
              /\ alignments[k].ref_end = ref_data[segment_pairs[k].ref].end
        /\ pc \in {"loop", "written"} => total_stats = SumStats(alignments, Len(alignments))

\* the log holds a warning for every excluded reference segment
C14_WarningLogged ==
    Paired =>
        \A r \in Unmatched :
            \E l \in 1..Len(debug_log) :
                debug_log[l] = <<"WARNING: No overlapping ASR segment",
                                 ref_data[r].start, ref_data[r].end>>

\* C14: a reference segment whose overlap with every hypothesis segment is
\* zero (also when it only touches one, and when there is no hypothesis
\* segment) produces no pair and a logged warning; the other reference
\* segments are still paired; the excluded segment is not aligned and adds
\* nothing to any counter.
C14_Excluded == C14_ExcludedOnly /\ C14_WarningLogged

----------------------------------------------------------------------------
\* The global counters.

\* no align_segment call is under way
BetweenCalls == pc \in {"loop", "written", "raised"}

\* the segment pair of position i, by value
PairValue(i) ==
    <<asr_segments[segment_pairs[i].asr], ref_data[segment_pairs[i].ref]>>

\* the counters of the alignment of one pair taken on its own
PairStats(pv) ==
    MakeStats(compute_edit_distance(
        [k \in 1..Len(pv[1].words) |-> MakeWordTiming(pv[1].words[k]).word],
        split(pv[2].text)).path)

ScaleStats(s, n) ==
    [deletions |-> n * s.deletions, insertions |-> n * s.insertions,
     substitutions |-> n * s.substitutions, matches |-> n * s.matches]

Multiplicity(pv) ==
    Cardinality({i \in 1..Len(segment_pairs) : PairValue(i) = pv})

\* the counters of a set of pairs, each counted as often as it occurs among
\* the segment pairs: a sum that knows no processing order
RECURSIVE TotalOver(_)
TotalOver(S) ==
    IF S = {} THEN NoStats
    ELSE LET pv == CHOOSE x \in S : TRUE
         IN  AddStats(ScaleStats(PairStats(pv), Multiplicity(pv)),
                      TotalOver(S \ {pv}))

\* C15: whenever no call is under way, each of the four counters of
\* total_stats is the sum of that counter over the statistics returned so
\* far; and the final totals are given by the multiset of the segment pairs
\* alone, so they are the same for every order of processing them.
C15_Totals ==
    /\ BetweenCalls => total_stats = SumStats(alignments, Len(alignments))
    /\ pc = "written" =>
          total_stats = TotalOver({PairValue(i) : i \in 1..Len(segment_pairs)})

\* a finished run of two calls on different pairs, both with counts
C15_Witness ==
    /\ pc = "written"
    /\ Len(alignments) = 2
    /\ PairValue(1) # PairValue(2)
    /\ alignments[1].stats # alignments[2].stats
    /\ alignments[1].stats.insertions > 0
    /\ alignments[2].stats.matches > 0
    /\ total_stats.insertions = alignments[1].stats.insertions + alignments[2].stats.insertions

----------------------------------------------------------------------------
\* The derived metrics of the statistics report.

Counter(key) == IF key \in DOMAIN stats_data THEN stats_data[key] ELSE 0

SID == Counter("substitutions") + Counter("insertions") + Counter("deletions")

AllOps == Counter("matches") + SID

ReferenceLength ==
    Counter("matches") + Counter("substitutions") + Counter("insertions")

\* the three metrics as percentages
AccuracyPercent == RNorm(100 * Counter("matches"), AllOps)

WERPercent == RNorm(100 * SID, ReferenceLength)

\* the row of a csv report
CsvValue(name) ==
    LET k == CHOOSE k \in 1..Len(report_content.rows) :
                report_content.rows[k][1] = name
    IN  report_content.rows[k][2]

ReportedEditDistance ==
    CASE report_content.format = "text" -> report_content.edit_distance
      [] report_content.format = "json" -> report_content.stats.edit_distance
      [] report_content.format = "csv" -> CsvValue("edit_distance")

\* a report shows the percentage x as its accuracy / as its error rate
ShowsAccuracy(x) ==
    CASE report_content.format = "text" -> report_content.accuracy = Fixed(x, 100)
      [] report_content.format = "json" -> report_content.stats.accuracy_percent = x
      [] report_content.format = "csv" -> CsvValue("accuracy_percent") = Fixed(x, 100)

ShowsErrorRate(x) ==
    CASE report_content.format = "text" -> report_content.error_rate = Fixed(x, 100)
      [] report_content.format = "json" -> report_content.stats.error_rate_percent = x
      [] report_content.format = "csv" -> CsvValue("error_rate_percent") = Fixed(x, 100)

\* C16: the report's edit distance is S+I+D, its accuracy is matches / total
\* and its error rate is the word error rate, edit distance / reference
\* length with reference length = matches + substitutions + insertions, for
\* all values of the counters.
C16_DerivedMetrics ==
    pc = "reported" =>
        /\ ReportedEditDistance = SID
        /\ AllOps > 0 => ShowsAccuracy(AccuracyPercent)
        /\ ReferenceLength > 0 => ShowsErrorRate(WERPercent)

----------------------------------------------------------------------------
\* Structural input errors and the report of the excluded segments.

\* the pair at position i has every field the run reads from it
ReadablePair(i) ==
    /\ \A k \in 1..Len(PairValue(i)[1].words) :
          {"word", "start", "end"} \subseteq DOMAIN PairValue(i)[1].words[k]
    /\ "text" \in DOMAIN PairValue(i)[2]

ReadablePairs == {i \in 1..Len(segment_pairs) : ReadablePair(i)}

\* C17: a hypothesis word record without start, end or word, or a reference
\* segment without text, excludes only its own pair: the run is never
\* aborted by it, and what it writes holds the alignment of every other
\* pair together with the statistics.
C17_BadPairExcluded ==
    /\ pc # "raised"
    /\ pc = "written" =>
          /\ Len(output_data.alignments) = Cardinality(ReadablePairs)
          /\ \A i \in ReadablePairs :
                \E k \in 1..Len(output_data.alignments) :
                    output_data.alignments[k].ref_timing =
                        [start |-> PairValue(i)[2].start, end |-> PairValue(i)[2].end]
          /\ stats_data = output_data.total_statistics

\* the four counters of a statistics record
CounterKeys == {"deletions", "insertions", "substitutions", "matches"}

\* a record holds the count n in a field that is not one of the given ones
ReportsCount(d, n, others) == \E key \in DOMAIN d \ others : d[key] = n

\* C18: what a run writes holds, next to the alignment statistics, the
\* number of reference segments that were excluded for want of an
\* overlapping hypothesis segment.
C18_SkippedCountReported ==
    pc = "written" =>
        \/ ReportsCount(output_data, Cardinality(Unmatched),
                        {"alignments", "total_statistics"})
        \/ ReportsCount(output_data.total_statistics, Cardinality(Unmatched),
                        CounterKeys)
        \/ ReportsCount(stats_data, Cardinality(Unmatched), CounterKeys)

----------------------------------------------------------------------------
\* A call of align_segment from end to end.

QuickBrownCall == asr_words = QuickBrownFox /\ ref_words = QuickBrownRedFox

OpKinds == [p \in 1..Len(operations) |-> operations[p].op]

\* what the call has returned
C19_Returned ==
    (Done /\ QuickBrownCall) =>
        /\ OpKinds = <<"M", "M", "M", "I", "M">>
        /\ operations[4].ref_word = <<"r", "e", "d">>
        /\ HypWord(operations[3]).end = R(3)
        /\ HypWord(operations[5]).start = R(3)
        /\ Len(Words) = 5
        /\ stats = [deletions |-> 0, insertions |-> 1, substitutions |-> 0,
                    matches |-> 4]

\* the step of the scan that visits the Insert is the borrow step
C19_BorrowTaken ==
    (QuickBrownCall /\ Scanning /\ operations[scan_i + 1].op = "I") => ScanBorrow

\* C19: aligning 'the quick brown fox', timed (0,1),(1,2),(2,3),(3,4),
\* against 'the quick brown red fox' gives Match, Match, Match,
\* Insert('red'), Match; the Insert lies between 'brown' (end 3) and 'fox'
\* (start 3) and the zero-gap borrow branch is taken for it; five words are
\* written, with insertions = 1, matches = 4, substitutions = 0 and
\* deletions = 0.
C19_QuickBrownFox ==
    /\ []C19_Returned
    /\ [][C19_BorrowTaken]_vars

\* the call has returned and 'red' holds the time borrowed from 'brown' and
\* 'fox'
C19_Witness ==
    /\ Done
    /\ QuickBrownCall
    /\ operations[4].adjusted_timing = <<<<267, 100>>, <<333, 100>>>>

----------------------------------------------------------------------------
\* Independence of the calls made on one TextAligner.

\* the hypothesis words and the reference words the k-th call was given
CallInput(k) == <<alignments[k].asr_words, split(PairValue(k)[2].text)>>

\* what the k-th call returned
CallResult(k) == <<alignments[k].operations, alignments[k].stats>>

\* calls with the same words return the same operations, timings and counts
C20_SameResult ==
    \A i, j \in 1..Len(alignments) :
        CallInput(i) = CallInput(j) => CallResult(i) = CallResult(j)

InCall == pc \in {"start", "scan"}

\* a step of a call leaves the debug file setting and the words it was given
\* as they are, and changes total_stats only in its last step, by the
\* counters it returns
C20_CallFrame ==
    InCall =>
        /\ debug_file' = debug_file
        /\ asr_words' = asr_words
        /\ ref_words' = ref_words
        /\ total_stats' # total_stats =>
              (pc' = "done" /\ total_stats' = AddStats(total_stats, stats'))

\* C20: what align_segment returns (operations, timings, per-segment
\* statistics) depends on the hypothesis words and reference words of the
\* call only: calls made from different total_stats, after different earlier
\* pairs, return the same for the same words; and total_stats is the only
\* state of the aligner that a call changes.
C20_Independence ==
    /\ []C20_SameResult
    /\ [][C20_CallFrame]_vars

\* two calls with the same words, the second made from totals that the
\* first has raised
C20_Witness ==
    /\ Len(alignments) = 2
    /\ CallInput(1) = CallInput(2)
    /\ alignments[1].stats # NoStats
    /\ alignments[1].stats.insertions > 0
    /\ total_stats = AddStats(alignments[1].stats, alignments[2].stats)

----------------------------------------------------------------------------
\* The word list written for a call.

\* the operations that have a reference word, in order
RefOps == SelectSeq(operations, LAMBDA o : o.op \in {"M", "S", "I"})

\* C21: the word list written for an aligned pair holds exactly the
\* reference words of the call, each once, in reference order and as they
\* were given (not normalized); no Delete is in the list; asr_word and
\* confidence are attached to the Match and Substitute entries, and to them
\* only.
C21_WordList ==
    Done =>
        /\ [k \in 1..Len(Words) |-> Words[k].word] = ref_words
        /\ \A k \in 1..Len(Words) :
              /\ Words[k].operation \in {"M", "S", "I"}
              /\ Words[k].operation = RefOps[k].op
              /\ ("asr_word" \in DOMAIN Words[k]) <=> Words[k].operation \in {"M", "S"}
              /\ ("confidence" \in DOMAIN Words[k]) <=> Words[k].operation \in {"M", "S"}
              /\ Words[k].operation \in {"M", "S"} =>
                    /\ Words[k].asr_word = HypWord(RefOps[k]).word
                    /\ Words[k].confidence = HypWord(RefOps[k]).confidence

\* a call with a Delete and a Match of two words that are written
\* differently
C21_Witness ==
    /\ Done
    /\ \E p \in 1..Len(operations) : operations[p].op = "D"
    /\ \E k \in 1..Len(Words) :
          /\ Words[k].operation = "M"
          /\ Words[k].word # Words[k].asr_word
          /\ Words[k].word # normalize_word(Words[k].word)
          /\ Words[k].confidence # None

----------------------------------------------------------------------------
\* The later visits of the scan to a resolved insertion run.

\* the scan stands at an Insert that an earlier step has already timed
Revisit ==
    /\ Scanning
    /\ operations[scan_i + 1].op = "I"
    /\ Timed(operations[scan_i + 1])

C22_RevisitStep == Revisit => (operations' = operations /\ ~ScanBorrow)

\* C22: the words of an insertion run are timed once, when the scan resolves
\* the run at its first member; the steps of the scan at the other members
\* of the run change the timing of no operation and borrow nothing more from
\* the neighbours, whatever the length of the run and the gap.
C22_AssignedOnce == [][C22_RevisitStep]_vars

\* the hypothesis words do not overlap in time
HypOrdered ==
    \A k \in 1..(HypLen - 1) : RLeq(asr_words[k].end, asr_words[k + 1].start)

----------------------------------------------------------------------------
\* C23

InterleavedCall == asr_words = BackToBack /\ ref_words = Interleaved

\* the operations are Match, Insert, Match, Insert, Match; the middle word has
\* lost 0.33 s at its start to the first run and 0.33 of the remaining 0.67 s
\* at its end to the second
C23_Interleaved ==
    (InterleavedCall /\ pc = "done") =>
        /\ OpKinds = <<"M", "I", "M", "I", "M">>
        /\ [k \in 1..5 |-> operations[k].adjusted_timing] =
              << <<R(0), <<67, 100>>>>,
                 <<<<67, 100>>, <<133, 100>>>>,
                 <<<<133, 100>>, <<17789, 10000>>>>,
                 <<<<17789, 10000>>, <<233, 100>>>>,
                 <<<<233, 100>>, R(3)>> >>

\* a borrowing step shortens the nearest timed operation before the run by
\* reduction_factor of the duration it has when the run is reached, and the
\* run starts at the end that leaves
C23_BorrowStep ==
    ScanBorrow =>
        LET p == scan_i + 1
            pj == PrevTimed(operations, p)
            nj == NextTimed(operations, p)
            grp == InsertionGroup(operations, p)
            cur == operations[pj].adjusted_timing
            nxt == operations[nj].adjusted_timing
        IN  /\ operations'[pj].adjusted_timing =
                  <<cur[1], RSub(cur[2], RMul(RSub(cur[2], cur[1]), reduction_factor))>>
            /\ (pj # nj /\ Timed(operations'[p])) =>
                  /\ operations'[grp[1]].adjusted_timing[1] =
                        operations'[pj].adjusted_timing[2]
                  /\ RSub(operations'[grp[2]].adjusted_timing[2],
                          operations'[grp[1]].adjusted_timing[1]) =
                        RAdd(RMul(RSub(cur[2], cur[1]), reduction_factor),
                             RMul(RSub(nxt[2], nxt[1]), reduction_factor))

\* C23: insertion runs are resolved left to right on the timings as they stand
\* when each run is reached; an anchor between two zero-gap runs gives the
\* second run reduction_factor of its current, already shortened interval and
\* the second run starts at the anchor's current end
C23_LeftToRight == []C23_Interleaved /\ [][C23_BorrowStep]_vars

C23_Witness ==
    /\ InterleavedCall
    /\ pc = "done"
    /\ operations[3].adjusted_timing = <<<<133, 100>>, <<17789, 10000>>>>
    /\ asr_words[2].start = R(1)

----------------------------------------------------------------------------
\* C24

\* the characters of the inputs that are not word characters
NonWordChars == {".", "!", "-"}

\* the normalized form as the specification words it: lowercased, with every
\* non-word character removed
NormalForm(w) ==
    SelectSeq([k \in 1..Len(w) |-> Lower(w[k])], LAMBDA c : c \notin NonWordChars)

Diagonal(e) == e[2] >= 0 /\ e[3] >= 0

C24_Labels ==
    pc # "start" =>
        \A k \in 1..Len(alignment_path) :
            LET e == alignment_path[k]
            IN  /\ Diagonal(e) <=> e[1] \in {"M", "S"}
                /\ Diagonal(e) =>
                      (e[1] = "M" <=> NormalForm(asr_words[e[2] + 1].word)
                                        = NormalForm(ref_words[e[3] + 1]))

\* "-" against "." (both normalize to the empty string) and "A" against "a!"
\* are Matches
C24_Examples ==
    (asr_words = Dashes /\ ref_words = Dots /\ pc # "start") =>
        /\ alignment_path = << <<"M", 0, 0>>, <<"M", 1, 1>> >>
        /\ edit_distance = 0

\* C24: in every returned path a diagonal operation is a Match exactly when
\* the normalized forms of its two words are equal and a Substitute exactly
\* when they differ; words that differ in case or punctuation only, or that
\* both normalize to the empty string, are a Match
C24_NormalizedEquality == C24_Labels /\ C24_Examples

C24_Witness ==
    /\ pc = "done"
    /\ \E k \in 1..Len(alignment_path) :
          /\ alignment_path[k][1] = "M"
          /\ asr_words[alignment_path[k][2] + 1].word
                # ref_words[alignment_path[k][3] + 1]
          /\ normalize_word(ref_words[alignment_path[k][3] + 1]) = <<>>
    /\ \E k \in 1..Len(alignment_path) :
          /\ alignment_path[k][1] = "M"
          /\ asr_words[alignment_path[k][2] + 1].word = <<"A">>
          /\ ref_words[alignment_path[k][3] + 1] = <<"a", "!">>

----------------------------------------------------------------------------
\* C25

\* the hypothesis word an operation refers to
Hyp(o) == asr_words[o.asr_word + 1]

\* the operation's timing is no longer the interval of its hypothesis word
Borrowed(o) ==
    /\ o.asr_word >= 0
    /\ o.adjusted_timing # <<Hyp(o).start, Hyp(o).end>>

C25_Step ==
    /\ asr_words' = asr_words
    /\ (ScanGapFill \/ ScanBorrow \/ ScanEdge) =>
          /\ Len(operations') = Len(operations)
          /\ \A k \in 1..Len(operations) :
                /\ operations'[k].op = operations[k].op
                /\ operations'[k].asr_word = operations[k].asr_word
                /\ operations'[k].ref_word = operations[k].ref_word

\* C25: no step of align_segment, adjust_timing_for_insertions,
\* reduce_adjacent_words_timing or handle_edge_insertions changes the word,
\* start, end or confidence of a hypothesis WordTiming; a timing step changes
\* only adjusted_timing, so the asr_word of an operation keeps its interval
C25_HypothesisImmutable == [][C25_Step]_vars

C25_Witness ==
    /\ pc = "done"
    /\ \E k \in 1..Len(operations) :
          /\ Borrowed(operations[k])
          /\ Hyp(operations[k]).start = R(1)
          /\ Hyp(operations[k]).end = R(2)
          /\ Hyp(operations[k]).confidence = <<2, 10>>

----------------------------------------------------------------------------
\* C26

NoInsertNextToDelete(path) ==
    \A k \in 1..(Len(path) - 1) :
        {path[k][1], path[k + 1][1]} # {"I", "D"}

\* each side of a run of Inserts is a Match, a Substitute or the end of the
\* sequence
RunsBounded ==
    \A k \in 1..Len(operations) :
        operations[k].op = "I" =>
            /\ (k > 1 => operations[k - 1].op \in {"M", "S", "I"})
            /\ (k < Len(operations) => operations[k + 1].op \in {"M", "S", "I"})

C26_Path ==
    pc # "start" => (NoInsertNextToDelete(alignment_path) /\ RunsBounded)

\* a Delete carries the interval of its hypothesis word, is not the nearest
\* timed operation of an Insert and keeps its timing in every step
C26_Step ==
    /\ \A k \in 1..Len(operations) :
          (k <= Len(operations') /\ operations[k].op = "D") =>
              operations'[k] = operations[k]
    /\ (ScanGapFill \/ ScanBorrow \/ ScanEdge) =>
          LET pj == PrevTimed(operations, scan_i + 1)
              nj == NextTimed(operations, scan_i + 1)
          IN  /\ (pj # 0 => operations[pj].op # "D")
              /\ (nj # 0 => operations[nj].op # "D")

\* C26: no returned path has an Insert next to a Delete; every insertion run
\* is bounded by a Match or Substitute or by the end of the sequence, and a
\* Delete, although timed, is never an anchor of a run and never shortened
C26_DeleteNeverAnchor == []C26_Path /\ [][C26_Step]_vars

C26_Witness ==
    /\ pc = "done"
    /\ \E d, k \in 1..Len(operations) :
          /\ operations[d].op = "D"
          /\ Timed(operations[d])
          /\ operations[k].op = "I"
          /\ Timed(operations[k])

----------------------------------------------------------------------------
\* C27

\* the resolved intervals of the output words, in textual order
WordIntervals == [k \in 1..Len(Words) |-> Words[k].timing]

\* null is no time: a word without timing is neither before nor after another
Ordered(ts) ==
    \A k \in 1..(Len(ts) - 1) :
        /\ ts[k] # None
        /\ ts[k + 1] # None
        /\ RLeq(ts[k][2], ts[k + 1][1])

\* C27: when every hypothesis word has start <= end and the words do not
\* overlap, the intervals of the output words after align_segment are ordered
\* without overlap: each word ends no later than the next one starts
C27_OrderedOutput ==
    (pc = "done" /\ HypWellFormed /\ HypOrdered) => Ordered(WordIntervals)

\* the same for the words that have a timing
TimedIntervals == SelectSeq(WordIntervals, LAMBDA t : t # None)

\* what remains of it: the words that were given a timing are in order
C27_TimedOrdered ==
    (pc = "done" /\ HypWellFormed /\ HypOrdered) => Ordered(TimedIntervals)

----------------------------------------------------------------------------
\* C28

RECURSIVE SumOver(_, _)
SumOver(f, k) == IF k = 0 THEN 0 ELSE SumOver(f, k - 1) + f[k]

\* the hypothesis words of the input, each counted once
InputWords ==
    SumOver([k \in 1..Len(asr_segments) |-> Len(asr_segments[k].words)],
            Len(asr_segments))

\* the hypothesis words of the segment pairs, counted once per pair
PairedWords ==
    SumOver([i \in 1..Len(segment_pairs) |->
                Len(asr_segments[segment_pairs[i].asr].words)],
            Len(segment_pairs))

Consumed(s) == s.matches + s.substitutions + s.deletions

\* C28: a reference segment that overlaps a hypothesis segment gets a pair
\* whether or not that hypothesis segment is already in another pair, and
\* every pair is aligned on its own: the global matches + substitutions +
\* deletions count the words of a hypothesis segment once per pair, so they
\* can exceed the number of hypothesis words of the input
C28_CountedPerPair ==
    /\ Paired =>
          \A r \in 1..Len(ref_data) :
              (\E k \in 1..Len(asr_segments) : PairOverlap(r, k) > 0) =>
                  \E i \in 1..Len(segment_pairs) : segment_pairs[i].ref = r
    /\ pc = "written" => Consumed(total_stats) = PairedWords

C28_Witness ==
    /\ pc = "written"
    /\ Len(segment_pairs) = 2
    /\ segment_pairs[1].asr = segment_pairs[2].asr
    /\ segment_pairs[1].ref # segment_pairs[2].ref
    /\ Len(alignments) = 2
    /\ Consumed(total_stats) > InputWords

----------------------------------------------------------------------------
\* C29

\* the length of the run of Inserts the operations begin with
LeadingRun ==
    Cardinality({k \in 1..Len(operations) :
                    \A q \in 1..k : operations[q].op = "I"})

HypNonNegative ==
    \A k \in 1..HypLen :
        ~RLess(asr_words[k].start, R(0)) /\ ~RLess(asr_words[k].end, R(0))

\* C29: a leading run of k Inserts before a first timed operation that starts
\* at s is laid out from s - 0.1 * k without clamping: with 0 <= s < 0.1 * k
\* the first inserted word starts at a negative time although no hypothesis
\* time is negative
C29_LeadingRunNotClamped ==
    (pc = "done" /\ LeadingRun > 0 /\ LeadingRun < Len(operations)) =>
        LET k == LeadingRun
            s == operations[k + 1].adjusted_timing[1]
            first == operations[1].adjusted_timing[1]
        IN  /\ s = asr_words[1].start
            /\ first = RSub(s, RTimes(base_duration, k))
            /\ RLess(s, RTimes(base_duration, k)) => RLess(first, R(0))

C29_Witness ==
    /\ pc = "done"
    /\ LeadingRun = 2
    /\ Len(operations) >= 3
    /\ HypNonNegative
    /\ operations[3].adjusted_timing[1] = R(0)
    /\ operations[1].adjusted_timing = <<RSub(R(0), <<1, 5>>), RSub(R(0), <<1, 10>>)>>
    /\ RLess(operations[1].adjusted_timing[1], R(0))

----------------------------------------------------------------------------
\* C30

\* the backtracking loop run again on the stored table for at most fuel
\* steps: the cell it stands on and the steps it has taken
RECURSIVE Walk(_, _, _, _)
Walk(i, j, steps, fuel) ==
    IF fuel = 0 \/ backtrack[i][j] = None THEN <<i, j, steps>>
    ELSE LET c == PrevCell(backtrack, i, j)
         IN  Walk(c[1], c[2], steps + 1, fuel - 1)

\* every cell but (0, 0) has a decision that leads to a cell of the table
\* with a smaller i + j
Decided ==
    \A i \in 0..HypLen, j \in 0..RefLen :
        IF i = 0 /\ j = 0 THEN backtrack[i][j] = None
        ELSE /\ backtrack[i][j] # None
             /\ LET c == PrevCell(backtrack, i, j)
                IN  /\ c[1] \in {i - 1, i} /\ c[1] >= 0
                    /\ c[2] \in {j - 1, j} /\ c[2] >= 0
                    /\ c[1] + c[2] < i + j

\* C30: the backtracking loop terminates: each step lowers i + j, every cell
\* other than (0, 0) has a recorded decision, and the loop stops at (0, 0)
\* after at least max(m, n) and at most m + n steps
C30_BacktrackTerminates ==
    pc # "start" =>
        /\ Decided
        /\ Walk(HypLen, RefLen, 0, HypLen + RefLen + 1)
              = <<0, 0, Len(alignment_path)>>
        /\ Max2(HypLen, RefLen) <= Len(alignment_path)
        /\ Len(alignment_path) <= HypLen + RefLen

C30_Witness ==
    /\ pc = "done"
    /\ asr_words = Shifted
    /\ ref_words = ShiftedRef
    /\ Len(alignment_path) = 4
    /\ Walk(3, 3, 0, 4) = <<0, 0, 4>>
====
